---- MODULE Spec2Model ----
(***************************************************************************)
(* Model of qks_utils.generate_frame (src/qks_utils.py).                   *)
(*                                                                         *)
(* Real numbers (Python floats) are modelled as exact rationals <<n, d>>   *)
(* in lowest terms with d > 0.  The process-wide numpy random generator is *)
(* a deterministic stream of samples of [0, 1): its state is the cyclic    *)
(* sequence of the RngPeriod samples it will give next.  A process starts  *)
(* with an arbitrary state; seeding sets a state that is a function of the *)
(* seed alone.                                                             *)
(***************************************************************************)
EXTENDS Integers, Sequences, FiniteSets

\* ------------------------------------------------------------ bounds
\* largest num_datapoints passed to generate_frame
MaxDatapoints == 12
\* period of the modelled random stream
RngPeriod == 3
\* the largest sample of [0, 1) is 1 - 1 / SampleDen
SampleDen == 4

\* ------------------------------------------------------------ rationals
Abs(a) == IF a < 0 THEN -a ELSE a

RECURSIVE GCD(_, _)
GCD(a, b) == IF b = 0 THEN a ELSE GCD(b, a % b)

\* the rational n / d (d # 0) in lowest terms with a positive denominator
Rat(n, d) ==
    LET g == GCD(Abs(n), Abs(d))
        s == IF d < 0 THEN -1 ELSE 1
    IN  << (s * n) \div g, (s * d) \div g >>

FromInt(k) == << k, 1 >>
RAdd(a, b) == Rat(a[1] * b[2] + b[1] * a[2], a[2] * b[2])
RSub(a, b) == Rat(a[1] * b[2] - b[1] * a[2], a[2] * b[2])
RMul(a, b) == Rat(a[1] * b[1], a[2] * b[2])
RNeg(a) == << -a[1], a[2] >>
\* a / k for an integer k # 0
RDivInt(a, k) == Rat(a[1], a[2] * k)
RLe(a, b) == a[1] * b[2] <= b[1] * a[2]
RLt(a, b) == a[1] * b[2] < b[1] * a[2]
\* floor of a rational, an integer
RFloor(a) == a[1] \div a[2]

\* ------------------------------------------------------------ Python numbers
\* A Python number passed as num_datapoints: its type and its value.
PyInt(k) == [t |-> "int", v |-> FromInt(k)]
PyFloat(n, d) == [t |-> "float", v |-> Rat(n, d)]

\* num_datapoints // 4: floor division keeps the operand's type
FloorDiv4(p) == [t |-> p.t, v |-> FromInt(RFloor(RDivInt(p.v, 4)))]

\* int(num_side): truncation toward zero (num_side is integral here)
IntOf(p) == p.v[1] \div p.v[2]

\* ------------------------------------------------------------ inputs
\* num_datapoints: every int from -1 to MaxDatapoints, and the floats 8.0 and 8.5
IntDatapoints == { PyInt(k) : k \in -1 .. MaxDatapoints }
FloatDatapoints == { PyFloat(8, 1), PyFloat(17, 2) }
NumDatapoints == IntDatapoints \cup FloatDatapoints
\* (size_side, thickness): valid pairs, and pairs with one negative member
ValidShapes == { << FromInt(s), FromInt(t) >> : s \in {2, 3}, t \in {0, 1} }
InvalidShapes == { << FromInt(-2), FromInt(1) >>, << FromInt(2), FromInt(-1) >> }
Shapes == ValidShapes \cup InvalidShapes
\* the inputs of the caller that seeds the generator
SeededDatapoints == { PyInt(k) : k \in {3, 4, 8} }
SeededShapes == { << FromInt(2), FromInt(t) >> : t \in {0, 1} }
Seeds == {0, 1}
\* no seed: the generator was never seeded, or has been used since
NoSeed == { }

\* the samples of [0, 1) a generator state is made of
Samples == { Rat(0, 1), Rat(1, 2), Rat(SampleDen - 1, SampleDen) }
RngStates == [1 .. RngPeriod -> Samples]

\* ------------------------------------------------------------ state
VARIABLES
    rng,            \* state of the shared generator: the samples it gives next
    fresh,          \* {s} when the generator was seeded with s and not used since
    num_datapoints, \* arguments of the last call
    size_side,
    thickness,
    num_side,       \* locals of the last call
    avgline,
    lower_window,
    upper_window,
    x,              \* values returned by the last call
    y,
    outcome,        \* "none" | "returned" | "TypeError" | "ValueError"
    entry,          \* rng when the last call began
    drawn,          \* the samples the last call took from the generator, in order
    seededBy,       \* fresh when the last call began
    repeat          \* the last call repeated the one before it, both right after
                    \* seeding with the same seed

args == << num_datapoints, size_side, thickness >>
locals == << num_side, avgline, lower_window, upper_window >>
ret == << x, y, outcome >>
vars == << rng, fresh, args, locals, ret, entry, drawn, seededBy, repeat >>

\* ------------------------------------------------------------ numpy
\* np.linspace(start, stop, num=num): what can become of its num argument.
\* An int num < 0 raises ValueError.  A float num is converted with int() by
\* numpy before 1.18 and raises TypeError from 1.18 on (operator.index); the
\* repository pins no version, so both are outcomes of the call.
LinspaceOutcomes(num) ==
    LET byValue == IF IntOf(num) < 0 THEN "ValueError" ELSE "ok"
    IN  IF num.t = "float" THEN { byValue, "TypeError" } ELSE { byValue }

\* mutant: endpoint=False, num steps and stop left out
Linspace_NoEndpoint(start, stop, num) ==
    [ i \in 1 .. num |->
        RAdd(RMul(FromInt(i - 1), RDivInt(RSub(stop, start), num)), start) ]

\* np.linspace(start, stop, num) for an integer num >= 0, endpoint included
Linspace(start, stop, num) ==
    LET div == num - 1
        delta == RSub(stop, start)
    IN  [ i \in 1 .. num |->
            IF num > 1 /\ i = num THEN stop
            ELSE IF div > 0
                 THEN RAdd(RMul(FromInt(i - 1), RDivInt(delta, div)), start)
                 ELSE RAdd(RMul(FromInt(i - 1), delta), start) ]

\* the k-th sample (k >= 1) a generator in state g gives
RandomSample(g, k) == g[((k - 1) % RngPeriod) + 1]

\* the first n samples a generator in state g gives
Take(g, n) == [ i \in 1 .. n |-> RandomSample(g, i) ]

\* mutant: one draw too many
Advance_OneMore(g, n) == [ i \in 1 .. Len(g) |-> g[((i + n) % Len(g)) + 1] ]

\* the state of a generator in state g after n draws
Advance(g, n) == [ i \in 1 .. RngPeriod |-> RandomSample(g, i + n) ]

\* mutant: the sample is not scaled to the width of [low, high)
Uniform_Unscaled(low, high, size, g) ==
    [ i \in 1 .. size |-> RAdd(low, g[((i - 1) % Len(g)) + 1]) ]

\* np.random.uniform(low, high, size) on a generator in state g
Uniform(low, high, size, g) ==
    [ i \in 1 .. size |->
        RAdd(low, RMul(RSub(high, low), RandomSample(g, i))) ]

\* np.tile(a, 2)
Tile2(a) == a \o a

\* a - c and a + c, elementwise
MinusScalar(a, c) == [ i \in 1 .. Len(a) |-> RSub(a[i], c) ]
PlusScalar(a, c) == [ i \in 1 .. Len(a) |-> RAdd(a[i], c) ]

\* x / 2 (Python true division)
Half(a) == RDivInt(a, 2)

\* ------------------------------------------------------------ generate_frame
\* mutant: rounds the quotient up instead of down
NumSide_RoundUp(nd) == [t |-> nd.t, v |-> FromInt(RFloor(RDivInt(RAdd(nd.v, FromInt(3)), 4)))]

\* num_side = num_datapoints // 4
NumSide(nd) == FloorDiv4(nd)

\* mutant: spans the whole side length on either side of the origin
Avgline_FullSide(ss, ns) == Linspace(RNeg(ss), ss, IntOf(ns))

\* avgline = np.linspace(-size_side / 2, size_side / 2, num=num_side)
Avgline(ss, ns) == Linspace(Half(RNeg(ss)), Half(ss), IntOf(ns))

\* mutant: shifts the jitter by the whole side length
LowerWindow_FullSide(ss, th, ns, g) ==
    MinusScalar(Uniform(Half(RNeg(th)), Half(th), IntOf(ns), g), ss)

\* lower_window = np.random.uniform(-thickness / 2., thickness / 2.,
\*                                  size=int(num_side)) - size_side / 2.
LowerWindow(ss, th, ns, g) ==
    MinusScalar(Uniform(Half(RNeg(th)), Half(th), IntOf(ns), g), Half(ss))

\* mutant: shifts the jitter down, as lower_window does
UpperWindow_Minus(ss, th, ns, g) ==
    MinusScalar(Uniform(Half(RNeg(th)), Half(th), IntOf(ns), g), Half(ss))

\* mutant: draws from the generator state the previous call began with
UpperWindow_Stale(ss, th, ns, g) ==
    PlusScalar(Uniform(Half(RNeg(th)), Half(th), IntOf(ns), entry), Half(ss))

\* upper_window = np.random.uniform(-thickness / 2., thickness / 2.,
\*                                  size=int(num_side)) + size_side / 2.
UpperWindow(ss, th, ns, g) ==
    PlusScalar(Uniform(Half(RNeg(th)), Half(th), IntOf(ns), g), Half(ss))

\* mutant: the jitter sequences in the other order
FrameY_Swapped(avg, lw, uw) == uw \o lw \o (avg \o avg)

\* x = np.concatenate((np.tile(avgline, 2), lower_window, upper_window))
FrameX(avg, lw, uw) == Tile2(avg) \o lw \o uw

\* y = np.concatenate((lower_window, upper_window, np.tile(avgline, 2)))
FrameY(avg, lw, uw) == lw \o uw \o Tile2(avg)

\* One call generate_frame(nd, ss, th).  np.linspace is called first and may
\* raise; then the two uniform calls draw from the generator, lower_window's
\* first, and x and y are assembled and returned.
generate_frame(nd, ss, th) ==
    /\ num_datapoints' = nd
    /\ size_side' = ss
    /\ thickness' = th
    /\ num_side' = NumSide(nd)
    /\ entry' = rng
    /\ seededBy' = fresh
    /\ fresh' = NoSeed
    /\ repeat' = ( /\ fresh # NoSeed
                   /\ seededBy = fresh
                   /\ outcome = "returned"
                   /\ args = << nd, ss, th >> )
    /\ outcome' \in { IF o = "ok" THEN "returned" ELSE o :
                        o \in LinspaceOutcomes(num_side') }
    /\ IF outcome' = "returned"
       THEN LET n == IntOf(num_side')
                g1 == Advance(rng, n)
            IN  /\ avgline' = Avgline(ss, num_side')
                /\ lower_window' = LowerWindow(ss, th, num_side', rng)
                /\ upper_window' = UpperWindow(ss, th, num_side', g1)
                /\ drawn' = Take(rng, n) \o Take(g1, n)
                /\ rng' = Advance(g1, n)
                /\ x' = FrameX(avgline', lower_window', upper_window')
                /\ y' = FrameY(avgline', lower_window', upper_window')
       ELSE /\ avgline' = << >>
            /\ lower_window' = << >>
            /\ upper_window' = << >>
            /\ drawn' = << >>
            /\ rng' = rng
            /\ x' = << >>
            /\ y' = << >>

\* np.random.seed(s): the generator state becomes a function of s alone
SeedState(s) == [ i \in 1 .. RngPeriod |-> Rat((s + i - 1) % RngPeriod, RngPeriod) ]

seed(s) ==
    /\ rng' = SeedState(s)
    /\ fresh' = {s}
    /\ UNCHANGED << args, locals, ret, entry, drawn, seededBy, repeat >>

\* ------------------------------------------------------------ specifications
Init ==
    /\ rng \in RngStates
    /\ fresh = NoSeed
    /\ num_datapoints = PyInt(0)
    /\ size_side = FromInt(0)
    /\ thickness = FromInt(0)
    /\ num_side = PyInt(0)
    /\ avgline = << >>
    /\ lower_window = << >>
    /\ upper_window = << >>
    /\ x = << >>
    /\ y = << >>
    /\ outcome = "none"
    /\ entry = rng
    /\ drawn = << >>
    /\ seededBy = NoSeed
    /\ repeat = FALSE

Call == \E nd \in NumDatapoints, sh \in Shapes : generate_frame(nd, sh[1], sh[2])

\* calls of generate_frame, the generator never seeded
Next == Call

Spec == Init /\ [][Next]_vars

Reseed == \E s \in Seeds : seed(s)

SeededCall ==
    \E nd \in SeededDatapoints, sh \in SeededShapes : generate_frame(nd, sh[1], sh[2])

\* a caller that may seed the generator between calls
NextSeeded == Reseed \/ SeededCall

SpecSeeded == Init /\ [][NextSeeded]_vars

\* ------------------------------------------------------------ claims
\* the last call returned
Returned == outcome = "returned"
\* the last call was given an int num_datapoints >= 0
IntArg == num_datapoints.t = "int" /\ IntOf(num_datapoints) >= 0
\* the last call was given a valid input: int num_datapoints >= 0,
\* size_side > 0, thickness >= 0
ValidArgs == IntArg /\ RLt(FromInt(0), size_side) /\ RLe(FromInt(0), thickness)
\* floor(num_datapoints / 4)
N == RFloor(RDivInt(num_datapoints.v, 4))
Between(lo, v, hi) == RLe(lo, v) /\ RLe(v, hi)

C2_Layout ==
    Returned =>
        /\ Len(avgline) = N /\ Len(lower_window) = N /\ Len(upper_window) = N
        /\ Len(x) = 4 * N /\ Len(y) = 4 * N
        /\ \A i \in 1 .. N :
            /\ x[i] = avgline[i]               /\ y[i] = lower_window[i]
            /\ x[N + i] = avgline[i]           /\ y[N + i] = upper_window[i]
            /\ x[2 * N + i] = lower_window[i]  /\ y[2 * N + i] = avgline[i]
            /\ x[3 * N + i] = upper_window[i]  /\ y[3 * N + i] = avgline[i]

C2_Witness ==
    /\ Returned /\ N = 3
    /\ RLt(FromInt(0), thickness)
    /\ lower_window[1] # lower_window[2]
    /\ \A i \in 1 .. N : lower_window[i] # upper_window[i] /\ y[N + i] = upper_window[i]

\* C3 (as claimed): generate_frame(8, 2.0, 0.0) has num_side = 2,
\* avgline = [-1, 1], lower_window = [-1, -1], upper_window = [1, 1] and returns
\* x = [-1, 1, -1, 1, -1, 1, -1, 1], y = [-1, -1, 1, 1, -1, 1, -1, 1].
C3_ScenarioAsClaimed ==
    LET m == FromInt(-1)
        p == FromInt(1)
    IN  (/\ outcome # "none"
         /\ num_datapoints = PyInt(8)
         /\ size_side = FromInt(2)
         /\ thickness = FromInt(0)) =>
            /\ Returned
            /\ num_side = PyInt(2)
            /\ avgline = << m, p >>
            /\ lower_window = << m, m >>
            /\ upper_window = << p, p >>
            /\ x = << m, p, m, p, m, p, m, p >>
            /\ y = << m, m, p, p, m, p, m, p >>

\* C3 (amended): generate_frame(8, 2.0, 0.0) has num_side = 2,
\* avgline = [-1, 1], lower_window = [-1, -1], upper_window = [1, 1] and returns
\* x = [-1, 1, -1, 1, -1, -1, 1, 1], y = [-1, -1, 1, 1, -1, 1, -1, 1]: the
\* last four x are lower_window then upper_window.
C3_Scenario ==
    LET m == FromInt(-1)
        p == FromInt(1)
    IN  (/\ outcome # "none"
         /\ num_datapoints = PyInt(8)
         /\ size_side = FromInt(2)
         /\ thickness = FromInt(0)) =>
            /\ Returned
            /\ num_side = PyInt(2)
            /\ avgline = << m, p >>
            /\ lower_window = << m, m >>
            /\ upper_window = << p, p >>
            /\ x = << m, p, m, p, m, m, p, p >>
            /\ y = << m, m, p, p, m, p, m, p >>

C3_Witness ==
    /\ Returned
    /\ num_datapoints = PyInt(8)
    /\ size_side = FromInt(2)
    /\ thickness = FromInt(0)
    /\ \E i \in 1 .. Len(drawn) : drawn[i] # FromInt(0)
    /\ Len(x) = 8

\* C4: for valid inputs and every outcome of the draws, every x[i] and y[i]
\* lies in [-size_side/2 - thickness/2, size_side/2 + thickness/2].
C4_Containment ==
    (outcome # "none" /\ ValidArgs) =>
        LET hi == RAdd(Half(size_side), Half(thickness))
            lo == RNeg(hi)
        IN  /\ Returned
            /\ \A i \in 1 .. Len(x) : Between(lo, x[i], hi)
            /\ \A i \in 1 .. Len(y) : Between(lo, y[i], hi)

C4_Witness ==
    /\ Returned /\ ValidArgs /\ N >= 2
    /\ RLt(FromInt(0), thickness)
    /\ \E i \in 1 .. Len(x) : x[i] = RNeg(RAdd(Half(size_side), Half(thickness)))
    /\ \E i \in 1 .. Len(y) : RLt(Half(size_side), y[i])

\* C7: with thickness = 0 and valid inputs, every lower_window element is
\* exactly -size_side/2 and every upper_window element exactly +size_side/2,
\* so every coordinate is -size_side/2, +size_side/2 or an element of avgline.
C7_NoJitter ==
    (outcome # "none" /\ ValidArgs /\ thickness = FromInt(0)) =>
        LET onLine(v) == \/ v = RNeg(Half(size_side))
                         \/ v = Half(size_side)
                         \/ \E j \in 1 .. Len(avgline) : v = avgline[j]
        IN  /\ Returned
            /\ \A i \in 1 .. Len(lower_window) : lower_window[i] = RNeg(Half(size_side))
            /\ \A i \in 1 .. Len(upper_window) : upper_window[i] = Half(size_side)
            /\ \A i \in 1 .. Len(x) : onLine(x[i])
            /\ \A i \in 1 .. Len(y) : onLine(y[i])

C7_Witness ==
    /\ Returned /\ ValidArgs /\ thickness = FromInt(0) /\ N = 3
    /\ \A i \in 1 .. Len(drawn) : drawn[i] # FromInt(0)
    /\ drawn[1] # drawn[2]

\* C8: avgline has num_side = floor(num_datapoints / 4) values; for
\* num_side >= 2 they run from -size_side/2 to size_side/2, both included, in
\* constant steps of size_side / (num_side - 1); for num_side = 1 it is the
\* single value -size_side/2, so that for 4 <= num_datapoints <= 7 every
\* along-side coordinate is -size_side/2; for num_side = 0 it is empty.
C8_Avgline ==
    (outcome # "none" /\ IntArg) =>
        /\ Returned
        /\ num_side = PyInt(N)
        /\ Len(avgline) = N
        /\ N >= 2 =>
            /\ avgline[1] = RNeg(Half(size_side))
            /\ avgline[N] = Half(size_side)
            /\ \A i \in 1 .. N - 1 :
                RSub(avgline[i + 1], avgline[i]) = RDivInt(size_side, N - 1)
        /\ N = 1 =>
            /\ avgline = << RNeg(Half(size_side)) >>
            /\ IntOf(num_datapoints) \in 4 .. 7
            /\ x[1] = RNeg(Half(size_side)) /\ x[2] = RNeg(Half(size_side))
            /\ y[3] = RNeg(Half(size_side)) /\ y[4] = RNeg(Half(size_side))
        /\ N = 0 => avgline = << >>

C8_Witness ==
    /\ Returned /\ IntArg /\ N = 3
    /\ size_side = FromInt(3)
    /\ avgline = << Rat(-3, 2), FromInt(0), Rat(3, 2) >>

\* C9: for valid inputs each point lies in the jitter band of its own side:
\* for i < n, y[i] and x[2n+i] lie in [-size_side/2 - thickness/2,
\* -size_side/2 + thickness/2], y[n+i] and x[3n+i] in [size_side/2 -
\* thickness/2, size_side/2 + thickness/2], and the along-side coordinates
\* x[i], x[n+i], y[2n+i], y[3n+i] in [-size_side/2, size_side/2].
C9_Bands ==
    (outcome # "none" /\ ValidArgs) =>
        LET h == Half(size_side)
            t == Half(thickness)
            low(v) == Between(RSub(RNeg(h), t), v, RAdd(RNeg(h), t))
            high(v) == Between(RSub(h, t), v, RAdd(h, t))
            along(v) == Between(RNeg(h), v, h)
        IN  /\ Returned
            /\ Len(x) = 4 * N /\ Len(y) = 4 * N
            /\ \A i \in 1 .. N :
                /\ low(y[i]) /\ low(x[2 * N + i])
                /\ high(y[N + i]) /\ high(x[3 * N + i])
                /\ along(x[i]) /\ along(x[N + i])
                /\ along(y[2 * N + i]) /\ along(y[3 * N + i])

C9_Witness ==
    /\ Returned /\ ValidArgs /\ N = 3
    /\ thickness = FromInt(1)
    /\ y[1] = RSub(RNeg(Half(size_side)), Half(thickness))
    /\ RLt(Half(size_side), y[N + 2])
    /\ RLt(RNeg(Half(size_side)), x[2 * N + 2])

\* C10: the only state a call changes is the shared generator: it takes
\* exactly 2 * floor(num_datapoints / 4) consecutive draws from it, those of
\* lower_window before those of upper_window and none for avgline, and a call
\* with 0 <= num_datapoints < 4 leaves the generator as it was.
C10_Draws ==
    (outcome # "none" /\ IntArg) =>
        LET jitter(r) == RAdd(Half(RNeg(thickness)), RMul(thickness, r))
        IN  /\ Returned
            /\ Len(drawn) = 2 * N
            /\ drawn = Take(entry, 2 * N)
            /\ \A i \in 1 .. RngPeriod : rng[i] = RandomSample(entry, 2 * N + i)
            /\ \A i \in 1 .. N :
                /\ lower_window[i] = RSub(jitter(RandomSample(entry, i)), Half(size_side))
                /\ upper_window[i] = RAdd(jitter(RandomSample(entry, N + i)), Half(size_side))
            /\ N = 0 => rng = entry

C10_Witness ==
    /\ Returned /\ IntArg /\ N = 2
    /\ thickness = FromInt(1)
    /\ rng # entry
    /\ drawn[1] # drawn[3] /\ drawn[2] # drawn[4]

\* C6 (as claimed): generate_frame validates nothing: given a negative
\* size_side, a negative thickness or a non-integer num_datapoints, the call
\* completes without raising an error and returns a pair of sequences.
C6_NeverRaises ==
    (/\ outcome # "none"
     /\ \/ IntArg /\ RLt(size_side, FromInt(0))
        \/ IntArg /\ RLt(thickness, FromInt(0))
        \/ num_datapoints.v[2] # 1 /\ RLe(FromInt(0), num_datapoints.v)) => Returned

\* C5 (as claimed): once the generator is seeded, two successive calls with
\* identical arguments return identical (x, y).  The step is the second of two
\* calls with no seeding between them, the first made right after seeding.
C5_SuccessiveCallsAgree ==
    [][ (/\ seededBy # NoSeed
         /\ Returned
         /\ fresh = NoSeed /\ fresh' = NoSeed
         /\ args' = args) => (x' = x /\ y' = y) ]_vars

\* C5 (amended): two calls with identical arguments, each made right after
\* seeding the generator with the same seed, return identical (x, y).  The
\* step is the second call; the state before it holds the first call's result.
C5_ReseededCallsAgree ==
    [][ (/\ fresh # NoSeed /\ fresh' = NoSeed
         /\ seededBy = fresh
         /\ Returned
         /\ args' = args) => (outcome' = outcome /\ x' = x /\ y' = y) ]_vars

C5_Witness ==
    /\ repeat /\ Returned
    /\ thickness = FromInt(1)
    /\ N = 2
    /\ lower_window[1] # lower_window[2]

====
